---------------------------- MODULE Spec2Model ----------------------------
(***************************************************************************)
(* A model of cartogram() (src/cartogram.py), the Dougenik-Chrisman-       *)
(* Niemeyer area cartogram.                                                *)
(*                                                                         *)
(* Numbers.  The program computes in IEEE-754 doubles.  The model keeps    *)
(* the three kinds of double that decide control flow and results - a      *)
(* finite value, an infinity, a NaN - and represents a finite value x by   *)
(* the integer nearest to x * SCALE (fixed point, round to nearest).       *)
(* Every arithmetic operator below follows the IEEE rules for the special  *)
(* values: x/0 is an infinity, 0/0 and 0*inf are NaN, NaN compares false   *)
(* with everything, itself included.                                       *)
(***************************************************************************)
EXTENDS Integers, Sequences, FiniteSets, TLC

SCALE == 100

\* ------------------------------------------------------------------------
\* Doubles
\* ------------------------------------------------------------------------

Fin(n) == [nan |-> FALSE, inf |-> 0, v |-> n]
NaN    == [nan |-> TRUE,  inf |-> 0, v |-> 0]
PInf   == [nan |-> FALSE, inf |-> 1, v |-> 0]
NInf   == [nan |-> FALSE, inf |-> -1, v |-> 0]

Inf(s) == IF s > 0 THEN PInf ELSE NInf

IsFinite(a) == ~a.nan /\ a.inf = 0
IsZero(a)   == IsFinite(a) /\ a.v = 0

Abs(n) == IF n < 0 THEN -n ELSE n
Sgn(n) == IF n < 0 THEN -1 ELSE IF n > 0 THEN 1 ELSE 0

\* The sign of a double; a zero counts as +0 (every zero divisor of the
\* program is a square root or a sum, never a negative zero).
Sign(a) == IF a.inf # 0 THEN a.inf ELSE IF a.v < 0 THEN -1 ELSE 1

\* n / d rounded to the nearest integer, d # 0.
RoundDiv(n, d) == Sgn(n) * Sgn(d) * ((2 * Abs(n) + Abs(d)) \div (2 * Abs(d)))

RECURSIVE RootSearch(_, _, _)
RootSearch(n, lo, hi) ==
    IF lo >= hi THEN lo
    ELSE LET mid == (lo + hi + 1) \div 2
         IN  IF mid * mid <= n THEN RootSearch(n, mid, hi)
             ELSE RootSearch(n, lo, mid - 1)

\* The integer nearest to the square root of n >= 0.
ISqrt(n) ==
    LET r == RootSearch(n, 0, 46340)
    IN  IF n - r * r > r THEN r + 1 ELSE r

FNeg(a) == IF a.nan THEN NaN ELSE [nan |-> FALSE, inf |-> -a.inf, v |-> -a.v]

FAdd(a, b) ==
    IF a.nan \/ b.nan THEN NaN
    ELSE IF a.inf # 0 /\ b.inf # 0 THEN (IF a.inf = b.inf THEN a ELSE NaN)
    ELSE IF a.inf # 0 THEN a
    ELSE IF b.inf # 0 THEN b
    ELSE Fin(a.v + b.v)

FSub(a, b) == FAdd(a, FNeg(b))

FMul(a, b) ==
    IF a.nan \/ b.nan THEN NaN
    ELSE IF a.inf # 0 \/ b.inf # 0
         THEN (IF IsZero(a) \/ IsZero(b) THEN NaN ELSE Inf(Sign(a) * Sign(b)))
    ELSE Fin(RoundDiv(a.v * b.v, SCALE))

FDiv(a, b) ==
    IF a.nan \/ b.nan THEN NaN
    ELSE IF a.inf # 0 THEN (IF b.inf # 0 THEN NaN ELSE Inf(Sign(a) * Sign(b)))
    ELSE IF b.inf # 0 THEN Fin(0)
    ELSE IF b.v = 0 THEN (IF a.v = 0 THEN NaN ELSE Inf(Sign(a)))
    ELSE Fin(RoundDiv(a.v * SCALE, b.v))

FSqrt(a) ==
    IF a.nan THEN NaN
    ELSE IF a.inf # 0 THEN (IF a.inf > 0 THEN PInf ELSE NaN)
    ELSE IF a.v < 0 THEN NaN
    ELSE Fin(ISqrt(a.v * SCALE))

FLt(a, b) ==
    /\ ~a.nan /\ ~b.nan
    /\ IF a.inf # 0 \/ b.inf # 0 THEN a.inf < b.inf ELSE a.v < b.v

FLe(a, b) ==
    /\ ~a.nan /\ ~b.nan
    /\ IF a.inf # 0 \/ b.inf # 0 THEN a.inf <= b.inf
       ELSE a.v <= b.v

FEq(a, b) == ~a.nan /\ ~b.nan /\ a = b

\* np.max / np.min of two values: a NaN operand gives NaN.
FMax(a, b) == IF a.nan \/ b.nan THEN NaN ELSE IF FLt(a, b) THEN b ELSE a
FMin(a, b) == IF a.nan \/ b.nan THEN NaN ELSE IF FLt(b, a) THEN b ELSE a

RECURSIVE FSum(_)
FSum(s) == IF s = <<>> THEN Fin(0) ELSE FAdd(FSum(SubSeq(s, 1, Len(s) - 1)), s[Len(s)])

\* np.pi
Pi == Fin((314159 * SCALE) \div 100000)

\* ------------------------------------------------------------------------
\* Geometry: a point is [x, y], a ring a closed sequence of points, a polygon
\* [exterior, interiors, origin].  origin is the position of the input
\* polygon the object was built from (an object's identity, which the program
\* has implicitly and the model has to name).
\* ------------------------------------------------------------------------

Pt(a, b) == [x |-> Fin(a * SCALE), y |-> Fin(b * SCALE)]

PointFinite(p) == IsFinite(p.x) /\ IsFinite(p.y)
RingFinite(ring) == \A k \in DOMAIN ring : PointFinite(ring[k])

\* Equality of two coordinate rows as numpy compares them (line 68).
PointEq(p, q) == FEq(p.x, q.x) /\ FEq(p.y, q.y)

Cross(p, q) == p.x.v * q.y.v - q.x.v * p.y.v

RECURSIVE RingCross(_, _)
\* Twice the signed area of the ring's first k edges (shoelace).
RingCross(ring, k) ==
    IF k = 0 THEN 0 ELSE RingCross(ring, k - 1) + Cross(ring[k], ring[k + 1])

RECURSIVE RingMomX(_, _)
RingMomX(ring, k) ==
    IF k = 0 THEN 0
    ELSE RingMomX(ring, k - 1)
         + (ring[k].x.v + ring[k + 1].x.v) * Cross(ring[k], ring[k + 1])

RECURSIVE RingMomY(_, _)
RingMomY(ring, k) ==
    IF k = 0 THEN 0
    ELSE RingMomY(ring, k - 1)
         + (ring[k].y.v + ring[k + 1].y.v) * Cross(ring[k], ring[k + 1])

Cross2(ring) == RingCross(ring, Len(ring) - 1)

RECURSIVE HolesCross(_)
HolesCross(holes) ==
    IF holes = <<>> THEN 0
    ELSE HolesCross(Tail(holes)) + Abs(Cross2(Head(holes)))

RECURSIVE HolesMomX(_)
HolesMomX(holes) ==
    IF holes = <<>> THEN 0
    ELSE HolesMomX(Tail(holes))
         + Sgn(Cross2(Head(holes))) * RingMomX(Head(holes), Len(Head(holes)) - 1)

RECURSIVE HolesMomY(_)
HolesMomY(holes) ==
    IF holes = <<>> THEN 0
    ELSE HolesMomY(Tail(holes))
         + Sgn(Cross2(Head(holes))) * RingMomY(Head(holes), Len(Head(holes)) - 1)

\* Twice the polygon's area: the shell's less the holes'.
PolyCross2(poly) == Abs(Cross2(poly.exterior)) - HolesCross(poly.interiors)

\* polygon.area
PolyArea(poly) ==
    IF ~RingFinite(poly.exterior) THEN NaN
    ELSE Fin(RoundDiv(PolyCross2(poly), 2 * SCALE))

\* polygon.centroid: the area-weighted centroid.  A polygon of no area has
\* no area-weighted centroid (0/0).
PolyCentroid(poly) ==
    IF ~RingFinite(poly.exterior) \/ PolyCross2(poly) = 0
    THEN [x |-> NaN, y |-> NaN]
    ELSE LET e  == poly.exterior
             mx == Sgn(Cross2(e)) * RingMomX(e, Len(e) - 1) - HolesMomX(poly.interiors)
             my == Sgn(Cross2(e)) * RingMomY(e, Len(e) - 1) - HolesMomY(poly.interiors)
         IN  [x |-> Fin(RoundDiv(mx, 3 * PolyCross2(poly))),
              y |-> Fin(RoundDiv(my, 3 * PolyCross2(poly)))]

\* Polygon(shell, holes): a shell whose last row differs from its first is
\* closed by repeating the first row.
CloseRing(coords) ==
    IF PointEq(coords[1], coords[Len(coords)]) THEN coords
    ELSE Append(coords, coords[1])

\* ------------------------------------------------------------------------
\* Lines 42-53: the metrics of one iteration
\* ------------------------------------------------------------------------

Epsilon == Fin(SCALE \div 100)

Centroids(polys) == [i \in DOMAIN polys |-> PolyCentroid(polys[i])]
Areas(polys)     == [i \in DOMAIN polys |-> PolyArea(polys[i])]

Desired(ar, vals, total) ==
    [i \in DOMAIN vals |->
        LET d == FDiv(FMul(FSum(ar), vals[i]), total)
        IN  IF FEq(d, Fin(0)) THEN Epsilon ELSE d]

Radius(ar) == [i \in DOMAIN ar |-> FSqrt(FDiv(ar[i], Pi))]

Mass(des, ar) ==
    [i \in DOMAIN ar |-> FSub(FSqrt(FDiv(des[i], Pi)), FSqrt(FDiv(ar[i], Pi)))]

MeanSizeError(des, ar) ==
    FDiv(FSum([i \in DOMAIN ar |->
                  FSub(FMax(des[i], ar[i]), FMin(des[i], ar[i]))]),
         Fin(Len(ar) * SCALE))

ForceReductionFactor(mse) == FDiv(Fin(SCALE), FAdd(Fin(SCALE), mse))

\* ------------------------------------------------------------------------
\* Lines 63-87: the displacement of one polygon
\* ------------------------------------------------------------------------

\* Line 73: the euclidean distance of a coordinate to a centroid.
Distance(p, c) ==
    IF PointFinite(p) /\ PointFinite(c)
    THEN Fin(ISqrt((c.x.v - p.x.v) * (c.x.v - p.x.v)
                   + (c.y.v - p.y.v) * (c.y.v - p.y.v)))
    ELSE LET dx == FSub(c.x, p.x)
             dy == FSub(c.y, p.y)
         IN  FSqrt(FAdd(FMul(dx, dx), FMul(dy, dy)))

\* Lines 77-80: the force of one polygon (mass m, radius r) at distance d.
Force(d, m, r, frf) ==
    LET far   == FDiv(FMul(m, r), d)
        ratio == FDiv(d, r)
        near  == FMul(FMul(m, FMul(ratio, ratio)),
                      FSub(Fin(4 * SCALE), FDiv(FMul(Fin(3 * SCALE), d), r)))
        f     == IF FLe(d, r) THEN near ELSE far
    IN  FMul(f, FDiv(frf, d))

\* Line 84: the coordinate plus the dot product of the forces and the deltas.
DisplacePoint(p, cents, ms, rs, frf) ==
    LET F == [j \in DOMAIN cents |-> Force(Distance(p, cents[j]), ms[j], rs[j], frf)]
    IN  [x |-> FAdd(p.x, FSum([j \in DOMAIN cents |-> FMul(F[j], FSub(p.x, cents[j].x))])),
         y |-> FAdd(p.y, FSum([j \in DOMAIN cents |-> FMul(F[j], FSub(p.y, cents[j].y))]))]

PointLess(p, q) == FLt(p.x, q.x) \/ (p.x = q.x /\ FLt(p.y, q.y))

RECURSIVE SortPoints(_)
SortPoints(S) ==
    IF S = {} THEN <<>>
    ELSE LET m == CHOOSE p \in S : \A q \in S \ {p} : PointLess(p, q)
         IN  <<m>> \o SortPoints(S \ {m})

\* Line 64: np.unique(coordinates, axis=0), the distinct rows in sorted order.
Unique(coords) == SortPoints({coords[k] : k \in DOMAIN coords})

\* Line 68: the ring positions that hold the coordinate u.
CoordIdx(coords, u) == {p \in DOMAIN coords : PointEq(coords[p], u)}

Min(S) == CHOOSE m \in S : \A n \in S : m <= n

RECURSIVE DisplaceFrom(_, _, _, _, _, _, _)
\* Lines 66-84: for each unique coordinate in turn, the first ring position
\* that holds it is displaced in place (new_coordinates is a view of row
\* coord_idx[0] of the matrix).
DisplaceFrom(coords, idx, k, cents, ms, rs, frf) ==
    IF k > Len(idx) THEN coords
    ELSE LET first == Min(CoordIdx(coords, idx[k]))
         IN  DisplaceFrom(
                 [coords EXCEPT ![first] = DisplacePoint(coords[first], cents, ms, rs, frf)],
                 idx, k + 1, cents, ms, rs, frf)

\* Lines 63-84 for one exterior ring.
DisplaceRing(coords, cents, ms, rs, frf) ==
    DisplaceFrom(coords, Unique(coords), 1, cents, ms, rs, frf)

\* Line 70: coord_idx[0] raises IndexError when coord_idx is empty, which it
\* is for a row that holds a NaN: such a row equals no row, itself included.
\* (A row without NaN keeps its coordinate until its turn in the loop, so it
\* is found when its turn comes.)
RowRaises(coords) == \E k \in DOMAIN coords : CoordIdx(coords, coords[k]) = {}

\* Rebuild with the holes left out.
Rebuild_noholes(polygon, coords) ==
    [exterior |-> CloseRing(coords), interiors |-> <<>>, origin |-> polygon.origin]

\* Line 87: Polygon(coordinates, holes = polygon.interiors)
Rebuild(polygon, coords) ==
    [exterior |-> CloseRing(coords), interiors |-> polygon.interiors,
     origin |-> polygon.origin]

\* StoreRow writing one position too far (wrapping round).
StoreRow_shifted(polys, r, polygon) ==
    [polys EXCEPT ![(r % Len(polys)) + 1] = polygon]

\* Line 87: polygons[row] = ...
StoreRow(polys, r, polygon) == [polys EXCEPT ![r] = polygon]

\* BreakTest without the break.
BreakTest_never(mse, maxerr) == FALSE

\* Line 37: the test that breaks out of the loop.
BreakTest(mse, maxerr) == FLt(mse, maxerr)

\* Lines 49-51: arrays of different lengths do not combine (ValueError).
ShapesMismatch(polys, vals) == Len(polys) # Len(vals)

\* ------------------------------------------------------------------------
\* Inputs
\* ------------------------------------------------------------------------

MaxIter == 2

Square(a, b, s) ==
    <<Pt(a, b), Pt(a + s, b), Pt(a + s, b + s), Pt(a, b + s), Pt(a, b)>>

\* A chevron whose reflex vertex (s, s) is its centroid.
Chevron(s) == <<Pt(0, 2 * s), Pt(2 * s, s), Pt(0, 0), Pt(s, s), Pt(0, 2 * s)>>

Simple(ring) == [exterior |-> ring, interiors |-> <<>>]
Holed(ring, hole) == [exterior |-> ring, interiors |-> <<hole>>]

WithOrigin(shapes) ==
    [i \in DOMAIN shapes |->
        [exterior |-> shapes[i].exterior, interiors |-> shapes[i].interiors,
         origin |-> i]]

PolygonInputs ==
    { WithOrigin(<<Simple(Square(0, 0, 1))>>),
      WithOrigin(<<Simple(Square(0, 0, 1)), Simple(Square(1, 0, 1))>>),
      WithOrigin(<<Simple(Chevron(1))>>),
      WithOrigin(<<Simple(Chevron(2)), Simple(Square(4, 0, 2))>>),
      WithOrigin(<<Holed(Square(0, 0, 3), Square(1, 1, 1)), Simple(Square(3, 0, 1))>>),
      WithOrigin(<<Simple(Square(0, 0, 1)), Simple(Square(1, 0, 1)),
                   Simple(Square(2, 0, 1))>>) }

Weights(ws) == [i \in DOMAIN ws |-> Fin(ws[i] * SCALE)]

ValueInputs ==
    { Weights(<<1>>), Weights(<<3>>), Weights(<<-1>>), Weights(<<0>>),
      Weights(<<1, 1>>), Weights(<<1, 3>>), Weights(<<8, 1>>), Weights(<<2, 1>>),
      Weights(<<-1, -3>>), Weights(<<1, -1>>),
      Weights(<<1, 2, 3>>), Weights(<<1, 1, 1>>) }

\* max_size_error: zero, the default (1.0001, which is 1 at this precision)
\* and a threshold above the initial mean_size_error.
MaxSizeErrorInputs == {Fin(0), Fin(SCALE), Fin(101 * SCALE)}

\* Line 34: mean_size_error = 100
InitialSizeError == 100

\* ------------------------------------------------------------------------
\* The state of one invocation
\* ------------------------------------------------------------------------

VARIABLES
    arg_polygons, arg_values, itermax, max_size_error,  \* the arguments
    polygons, values, total_value,                      \* lines 30-33
    mean_size_error, iteration,                         \* lines 34, 36
    centroids, area, radius, mass, force_reduction_factor,  \* lines 42-53
    row,                                                \* line 57
    prev_polygons,   \* history: polygons as lines 42-43 read them
    result,          \* line 89: the returned series
    pc               \* "loop", "metrics", "displace", "returned", "raised"

args    == <<arg_polygons, arg_values, itermax, max_size_error, values, total_value>>
metrics == <<centroids, area, radius, mass, force_reduction_factor, prev_polygons>>
vars    == <<arg_polygons, arg_values, itermax, max_size_error, polygons, values,
             total_value, mean_size_error, iteration, centroids, area, radius,
             mass, force_reduction_factor, row, prev_polygons, result, pc>>

\* Lines 30-34.
Init ==
    /\ arg_polygons \in PolygonInputs
    /\ arg_values \in ValueInputs
    /\ itermax \in 0..MaxIter
    /\ max_size_error \in MaxSizeErrorInputs
    /\ polygons = arg_polygons
    /\ values = arg_values
    /\ total_value = FSum(arg_values)
    /\ mean_size_error = Fin(InitialSizeError * SCALE)
    /\ iteration = 0
    /\ centroids = <<>> /\ area = <<>> /\ radius = <<>> /\ mass = <<>>
    /\ force_reduction_factor = Fin(0)
    /\ row = 0
    /\ prev_polygons = <<>>
    /\ result = <<>>
    /\ pc = "loop"

\* Line 36 with range(itermax) exhausted, then line 89.
LoopExhausted ==
    /\ pc = "loop"
    /\ iteration >= itermax
    /\ result' = polygons
    /\ pc' = "returned"
    /\ UNCHANGED <<args, metrics, polygons, mean_size_error, iteration, row>>

\* Lines 37-38: break, then line 89.
LoopBreak ==
    /\ pc = "loop"
    /\ iteration < itermax
    /\ BreakTest(mean_size_error, max_size_error)
    /\ result' = polygons
    /\ pc' = "returned"
    /\ UNCHANGED <<args, metrics, polygons, mean_size_error, iteration, row>>

\* Lines 36-37: the loop body is entered.
LoopEnter ==
    /\ pc = "loop"
    /\ iteration < itermax
    /\ ~BreakTest(mean_size_error, max_size_error)
    /\ pc' = "metrics"
    /\ UNCHANGED <<args, metrics, polygons, mean_size_error, iteration, row, result>>

\* Lines 42-53.
ComputeMetrics ==
    /\ pc = "metrics"
    /\ ~ShapesMismatch(polygons, values)
    /\ LET ar  == Areas(polygons)
           des == Desired(ar, values, total_value)
           mse == MeanSizeError(des, ar)
       IN  /\ centroids' = Centroids(polygons)
           /\ area' = ar
           /\ radius' = Radius(ar)
           /\ mass' = Mass(des, ar)
           /\ mean_size_error' = mse
           /\ force_reduction_factor' = ForceReductionFactor(mse)
    /\ prev_polygons' = polygons
    /\ row' = 1
    /\ pc' = "displace"
    /\ UNCHANGED <<args, polygons, iteration, result>>

\* Lines 49-51 raising ValueError.
MetricsRaise ==
    /\ pc = "metrics"
    /\ ShapesMismatch(polygons, values)
    /\ pc' = "raised"
    /\ UNCHANGED <<args, metrics, polygons, mean_size_error, iteration, row, result>>

\* DisplaceRow with the centroids taken again from the polygons after each row.
DisplaceRow_recompute ==
    /\ pc = "displace"
    /\ ~RowRaises(polygons[row].exterior)
    /\ polygons' = StoreRow(polygons, row,
                      Rebuild(polygons[row],
                              DisplaceRing(polygons[row].exterior, centroids, mass,
                                           radius, force_reduction_factor)))
    /\ centroids' = Centroids(polygons')
    /\ IF row < Len(polygons)
       THEN row' = row + 1 /\ UNCHANGED <<iteration, pc>>
       ELSE row' = 0 /\ iteration' = iteration + 1 /\ pc' = "loop"
    /\ UNCHANGED <<args, area, radius, mass, force_reduction_factor, prev_polygons,
                   mean_size_error, result>>

\* Lines 57-87 for one row; after the last row the loop goes round.
DisplaceRow ==
    /\ pc = "displace"
    /\ ~RowRaises(polygons[row].exterior)
    /\ polygons' = StoreRow(polygons, row,
                      Rebuild(polygons[row],
                              DisplaceRing(polygons[row].exterior, centroids, mass,
                                           radius, force_reduction_factor)))
    /\ IF row < Len(polygons)
       THEN row' = row + 1 /\ UNCHANGED <<iteration, pc>>
       ELSE row' = 0 /\ iteration' = iteration + 1 /\ pc' = "loop"
    /\ UNCHANGED <<args, metrics, mean_size_error, result>>

\* Line 70 raising IndexError.
DisplaceRaise ==
    /\ pc = "displace"
    /\ RowRaises(polygons[row].exterior)
    /\ pc' = "raised"
    /\ UNCHANGED <<args, metrics, polygons, mean_size_error, iteration, row, result>>

Next ==
    \/ LoopExhausted
    \/ LoopBreak
    \/ LoopEnter
    \/ ComputeMetrics
    \/ MetricsRaise
    \/ DisplaceRow
    \/ DisplaceRaise

Spec == Init /\ [][Next]_vars

\* ------------------------------------------------------------------------
\* Properties
\* ------------------------------------------------------------------------

N == Len(arg_polygons)

\* The inputs the interface asks for: one weight per polygon, every weight
\* positive.
ValidInput ==
    /\ Len(arg_values) = N
    /\ \A i \in DOMAIN arg_values : FLt(Fin(0), arg_values[i])

Moved(polys) == \E i \in DOMAIN polys : polys[i].exterior # arg_polygons[i].exterior

\* C1: at every point of an invocation there are exactly N polygons and the
\* polygon at position i is the one derived from the input polygon at
\* position i; the returned series is that collection.
C1_CountAndOrder ==
    /\ Len(polygons) = N
    /\ \A i \in DOMAIN polygons : polygons[i].origin = i
    /\ pc = "returned" =>
          /\ Len(result) = N
          /\ \A i \in DOMAIN result : result[i].origin = i

\* Two rounds over three polygons have run, every polygon changed, and the
\* series is returned.
C1_Witness ==
    /\ ValidInput
    /\ pc = "returned" /\ iteration = 2 /\ N = 3
    /\ \A i \in DOMAIN result : result[i].exterior # arg_polygons[i].exterior

\* C2: the interior rings of every polygon are those of the input polygon at
\* every point of an invocation and in the returned series.
C2_HolesUnchanged ==
    /\ \A i \in DOMAIN polygons : polygons[i].interiors = arg_polygons[i].interiors
    /\ pc = "returned" =>
          \A i \in DOMAIN result : result[i].interiors = arg_polygons[i].interiors

\* A polygon with a hole is returned with a displaced exterior after two rounds.
C2_Witness ==
    /\ ValidInput
    /\ pc = "returned" /\ iteration = 2
    /\ \E i \in DOMAIN result :
          /\ result[i].interiors # <<>>
          /\ result[i].exterior # arg_polygons[i].exterior

\* weight_i / area_i is the same for every i, on the areas of the input.
Proportional ==
    /\ ValidInput
    /\ \A i, j \in DOMAIN arg_polygons :
          arg_values[i].v * PolyArea(arg_polygons[j]).v
              = arg_values[j].v * PolyArea(arg_polygons[i]).v

\* C3: with weights proportional to the areas every mass is 0 in every
\* iteration and the returned exteriors are those of the input.
C3_ProportionalUnchanged ==
    Proportional =>
        /\ pc = "displace" => \A i \in DOMAIN mass : mass[i] = Fin(0)
        /\ pc = "returned" => ~Moved(result)

\* C4: with a weight count that differs from the polygon count, or a total
\* weight <= 0, no vertex is ever displaced and nothing is returned.
C4_FailsBeforeIterating ==
    (Len(arg_values) # N \/ FLe(total_value, Fin(0))) =>
        /\ pc # "returned"
        /\ ~Moved(polygons)

\* The centroids at distance 0 from p left out.
Apart(p, cents) == {j \in DOMAIN cents : ~IsZero(Distance(p, cents[j]))}

RECURSIVE Pick(_, _, _)
\* The elements of s at the positions in J, in order.
Pick(s, J, k) ==
    IF k = 0 THEN <<>>
    ELSE IF k \in J THEN Append(Pick(s, J, k - 1), s[k]) ELSE Pick(s, J, k - 1)

\* C5: a vertex at distance 0 from a centroid is displaced by the sum of the
\* other polygons' contributions, a defined number.
C5_ZeroDistanceIsZeroForce ==
    (pc = "displace" /\ ValidInput /\ ~RowRaises(polygons[row].exterior)) =>
        \A k \in DOMAIN polygons[row].exterior :
            LET p == polygons[row].exterior[k]
                J == Apart(p, centroids)
                n == Len(centroids)
            IN  J # DOMAIN centroids =>
                    DisplacePoint(p, centroids, mass, radius, force_reduction_factor)
                      = DisplacePoint(p, Pick(centroids, J, n), Pick(mass, J, n),
                                      Pick(radius, J, n), force_reduction_factor)

\* C6: an invocation on valid input, with max_size_error at least 1, ends by
\* returning (converged or exhausted), never by raising, after at most itermax
\* rounds.
C6_EndsConvergedOrExhausted ==
    (ValidInput /\ FLe(Fin(SCALE), max_size_error)) =>
        (pc # "raised" /\ iteration <= itermax)

\* C7: on valid input, ring positions that hold the same coordinate before a
\* polygon's displacement hold the same coordinate in the rebuilt polygon.
C7_SharedCoordinateMovesTogether ==
    [][(ValidInput /\ pc = "displace" /\ pc' # "raised") =>
          \A p, q \in DOMAIN polygons[row].exterior :
              PointEq(polygons[row].exterior[p], polygons[row].exterior[q]) =>
                  polygons'[row].exterior[p] = polygons'[row].exterior[q]]_vars

\* C8 as stated: displacement runs only in an iteration whose own mean size
\* error is not below max_size_error.
C8_OwnErrorGatesDisplacement ==
    pc = "displace" => ~FLt(mean_size_error, max_size_error)

\* C8 as the code has it: the test at the head of an iteration reads the mean
\* size error left by the previous iteration (100 before the first).  Below
\* max_size_error the invocation returns with no metrics computed and no
\* vertex moved; otherwise the body is entered, and once the metrics are
\* computed the displacement follows whatever the new mean size error is.
C8_PreviousErrorGatesIteration ==
    [][/\ (pc = "loop" /\ iteration < itermax
              /\ FLt(mean_size_error, max_size_error)) =>
                  (pc' = "returned" /\ UNCHANGED <<polygons, metrics, mean_size_error>>)
       /\ (pc = "loop" /\ pc' = "metrics") =>
              ~FLt(mean_size_error, max_size_error)
       /\ (pc = "metrics" /\ pc' # "raised") => pc' = "displace"]_vars

\* A first round displaced vertices although its own mean size error was
\* below max_size_error, and the second iteration broke.
C8_Witness ==
    /\ ValidInput
    /\ pc = "returned" /\ iteration = 1 /\ itermax = 2
    /\ FLt(mean_size_error, max_size_error)
    /\ Moved(result)

\* C9: while the rows of an iteration are displaced, the centroids, areas,
\* radii, masses and force-reduction factor are those of the polygons as they
\* stood when the iteration began, and no row still to be displaced has
\* changed since.
C9_MetricsFromSnapshot ==
    pc = "displace" =>
        LET ar  == Areas(prev_polygons)
            des == Desired(ar, values, total_value)
        IN  /\ centroids = Centroids(prev_polygons)
            /\ area = ar
            /\ radius = Radius(ar)
            /\ mass = Mass(des, ar)
            /\ force_reduction_factor = ForceReductionFactor(MeanSizeError(des, ar))
            /\ \A r \in row..Len(polygons) : polygons[r] = prev_polygons[r]

\* In a second round, the first polygon is rebuilt, its centroid is no longer
\* the one in use, and the second polygon is still to be displaced.
C9_Witness ==
    /\ ValidInput
    /\ pc = "displace" /\ row = 2 /\ iteration = 1
    /\ polygons[1] # prev_polygons[1]
    /\ PolyCentroid(polygons[1]) # centroids[1]

\* C10: with itermax >= 1 an invocation on valid input that returns has
\* computed the metrics at least once.
C10_FirstIterationRuns ==
    (ValidInput /\ itermax >= 1 /\ pc = "returned") => Len(centroids) > 0

====
